---- MODULE Spec2Model ----
(***************************************************************************)
(* Model of custom_components/stiebel_eltron_isg/__init__.py: the          *)
(* StiebelEltronModbusDataCoordinator, its lock-guarded transport calls,   *)
(* the poll (read_modbus_data) and the register decoders.                  *)
(***************************************************************************)
EXTENDS Integers, Sequences, FiniteSets, TLC

(***************************************************************************)
(* Bounds of the model.                                                    *)
(***************************************************************************)
\* number of threads that may call into the coordinator concurrently
NumCallers == 2
\* longest schema handed to parse_modbus_values_by_map in SpecParse
MaxSchemaLen == 2
\* longest register sequence handed to the decoder in SpecParse
MaxWords == 2

(***************************************************************************)
(* Register type codes.                                                    *)
(***************************************************************************)
ISG_TYPE_2 == 2
ISG_TYPE_6 == 6
ISG_TYPE_7 == 7
ISG_TYPE_8 == 8
ISG_TYPE_C == 128

(***************************************************************************)
(* Result keys.  The imported names stand for the strings of .const; the   *)
(* names local to read_modbus_system_values_LW carry the strings the       *)
(* source gives them.                                                      *)
(***************************************************************************)
ACTUAL_TEMPERATURE == "actual_temperature"
TARGET_TEMPERATURE == "target_temperature"
ACTUAL_TEMPERATURE_FEK == "actual_temperature_fek"
TARGET_TEMPERATURE_FEK == "target_temperature_fek"
ACTUAL_HUMIDITY == "actual_humidity"
DEWPOINT_TEMPERATURE == "dewpoint_temperature"
OUTDOOR_TEMPERATURE == "outdoor_temperature"
ACTUAL_TEMPERATURE_HK1 == "actual_temperature_hk1"
TARGET_TEMPERATURE_HK1 == "target_temperature_hk1"
ACTUAL_TEMPERATURE_HK2 == "actual_temperature_hk2"
TARGET_TEMPERATURE_HK2 == "target_temperature_hk2"
ACTUAL_TEMPERATURE_BUFFER == "actual_temperature_buffer"
TARGET_TEMPERATURE_BUFFER == "target_temperature_buffer"
ACTUAL_TEMPERATURE_WATER == "actual_temperature_water"
TARGET_TEMPERATURE_WATER == "target_temperature_water"
SOURCE_TEMPERATURE == "source_temperature"
PRODUCED_HEATING_TODAY == "produced_heating_today"
PRODUCED_HEATING_TOTAL == "produced_heating_total"
PRODUCED_WATER_HEATING_TODAY == "produced_water_heating_today"
PRODUCED_WATER_HEATING_TOTAL == "produced_water_heating_total"
CONSUMED_HEATING_TODAY == "consumed_heating_today"
CONSUMED_HEATING_TOTAL == "consumed_heating_total"
CONSUMED_WATER_HEATING_TODAY == "consumed_water_heating_today"
CONSUMED_WATER_HEATING_TOTAL == "consumed_water_heating_total"
CONSUMED_POWER == "consumed_power"
IS_HEATING == "is_heating"
IS_HEATING_WATER == "is_heating_water"
IS_SUMMER_MODE == "is_summer_mode"
IS_COOLING == "is_cooling"
CONTROLLER_ID == "controller_id"

ACTUAL_HUMIDITY_HK1 == "actual_humidity_hk1"
ACTUAL_HUMIDITY_HK2 == "actual_humidity_hk2"
ACTUAL_CIRCUIT_TEMPERATURE_HK1 == "actual_temperature_hk1"
TARGET_CIRCUIT_TEMPERATURE_HK1 == "target_temperature_hk1"
ACTUAL_CIRCUIT_TEMPERATURE_HK2 == "actual_temperature_hk2"
TARGET_CIRCUIT_TEMPERATURE_HK2 == "target_temperature_hk2"
SUPPLY_TEMPERATURE == "supply_temperature"
RETURN_TEMPERATURE == "return_temperature"
PRESSURE_CIRCUIT == "pressure_circuit"
COMPRESSOR_STARTS == "compressor_starts"

\* the absent schema name (Python's None as a valname)
NoName == "<None>"

(***************************************************************************)
(* Values.  A scalar is [kind, num, den]: an int n is n/1, a float scaled  *)
(* by 0.1 is n/10, a bool is 0/1 or 1/1, None has kind "None".  An entry   *)
(* of a result mapping is either one scalar or a list of scalars.          *)
(***************************************************************************)
IntVal(n) == [kind |-> "int", num |-> n, den |-> 1]
FloatVal(n, d) == [kind |-> "float", num |-> n, den |-> d]
BoolVal(b) == [kind |-> "bool", num |-> IF b THEN 1 ELSE 0, den |-> 1]
None == [kind |-> "None", num |-> 0, den |-> 1]
\* the wattage constant of .const, kept symbolic
HEATPUMPT_AVERAGE_POWER == [kind |-> "HEATPUMPT_AVERAGE_POWER", num |-> 1, den |-> 1]

Plain(v) == [list |-> FALSE, items |-> <<v>>]
ListOf(vs) == [list |-> TRUE, items |-> vs]

EmptyMap == [k \in {} |-> Plain(None)]
Put(m, k, v) == [x \in (DOMAIN m) \cup {k} |-> IF x = k THEN v ELSE m[x]]
\* {**a, **b}: the later mapping wins
Merge(a, b) == [x \in (DOMAIN a) \cup (DOMAIN b) |-> IF x \in DOMAIN b THEN b[x] ELSE a[x]]

get_isg_scaled_value(temp) == IF temp # -32768 THEN FloatVal(temp, 10) ELSE None

(***************************************************************************)
(* BinaryPayloadDecoder over big-endian 16-bit registers: a byte cursor.   *)
(***************************************************************************)
fromRegisters(registers) == [regs |-> registers, pointer |-> 0]

\* two more bytes are there to unpack
CanDecode(d) == d.pointer + 2 <= 2 * Len(d.regs)

decode_16bit_uint(d) == d.regs[(d.pointer \div 2) + 1]

decode_16bit_int(d) ==
    LET u == d.regs[(d.pointer \div 2) + 1]
    IN  IF u >= 32768 THEN u - 65536 ELSE u

skip_bytes(d, nbytes) == [d EXCEPT !.pointer = @ + nbytes]

(***************************************************************************)
(* A sequential register walk: the decode and skip calls of one block      *)
(* decoder, in source order.  "result" stores the scaled value under a     *)
(* result key, "local" keeps the decoded number in a local variable.       *)
(***************************************************************************)
ResultInt(key) == [op |-> "int", to |-> "result", name |-> key, n |-> 2]
LocalInt(var) == [op |-> "int", to |-> "local", name |-> var, n |-> 2]
LocalUint(var) == [op |-> "uint", to |-> "local", name |-> var, n |-> 2]
Skip(nbytes) == [op |-> "skip", to |-> "none", name |-> "", n |-> nbytes]

RECURSIVE RunWalk(_, _, _, _)
RunWalk(walk, d, result, locals) ==
    IF walk = <<>> THEN [ok |-> TRUE, result |-> result, locals |-> locals, d |-> d]
    ELSE LET ins == Head(walk) IN
         IF ins.op = "skip"
         THEN RunWalk(Tail(walk), skip_bytes(d, ins.n), result, locals)
         ELSE IF ~CanDecode(d)
         THEN [ok |-> FALSE, result |-> result, locals |-> locals,
               d |-> skip_bytes(d, 2)]
         ELSE LET v == IF ins.op = "int"
                       THEN get_isg_scaled_value(decode_16bit_int(d))
                       ELSE IntVal(decode_16bit_uint(d))
              IN  IF ins.to = "result"
                  THEN RunWalk(Tail(walk), skip_bytes(d, 2),
                               Put(result, ins.name, Plain(v)), locals)
                  ELSE RunWalk(Tail(walk), skip_bytes(d, 2),
                               result, Put(locals, ins.name, Plain(v)))

(***************************************************************************)
(* read_modbus_system_state: the bit flags of the one state register.      *)
(***************************************************************************)
Bit(state, k) == (state \div (2 ^ k)) % 2 = 1

SystemStateKeys == {IS_HEATING, IS_HEATING_WATER, CONSUMED_POWER, IS_SUMMER_MODE, IS_COOLING}

SystemStateDecode(registers) ==
    LET d == fromRegisters(registers) IN
    IF ~CanDecode(d)
    THEN [ok |-> FALSE, result |-> EmptyMap, d |-> skip_bytes(d, 2)]
    ELSE LET state == decode_16bit_uint(d)
             is_heating == Bit(state, 4)
             is_heating_water == Bit(state, 5)
         IN  [ok |-> TRUE,
              result |->
                [k \in SystemStateKeys |->
                   CASE k = IS_HEATING -> Plain(BoolVal(is_heating))
                     [] k = IS_HEATING_WATER -> Plain(BoolVal(is_heating_water))
                     [] k = CONSUMED_POWER ->
                          Plain(IF is_heating_water \/ is_heating
                                THEN HEATPUMPT_AVERAGE_POWER
                                ELSE FloatVal(0, 1))
                     [] k = IS_SUMMER_MODE -> Plain(BoolVal(Bit(state, 7)))
                     [] OTHER -> Plain(BoolVal(Bit(state, 8)))],
              d |-> skip_bytes(d, 2)]

(***************************************************************************)
(* read_modbus_system_values: the walk over the 40-word main block.        *)
(***************************************************************************)
SystemValuesWalk_skip8 ==
    << ResultInt(ACTUAL_TEMPERATURE), ResultInt(TARGET_TEMPERATURE),
       ResultInt(ACTUAL_TEMPERATURE_FEK), ResultInt(TARGET_TEMPERATURE_FEK),
       ResultInt(ACTUAL_HUMIDITY), ResultInt(DEWPOINT_TEMPERATURE),
       ResultInt(OUTDOOR_TEMPERATURE), ResultInt(ACTUAL_TEMPERATURE_HK1),
       LocalInt("hk1_target"), ResultInt(TARGET_TEMPERATURE_HK1),
       ResultInt(ACTUAL_TEMPERATURE_HK2), ResultInt(TARGET_TEMPERATURE_HK2),
       Skip(8),
       ResultInt(ACTUAL_TEMPERATURE_BUFFER), ResultInt(TARGET_TEMPERATURE_BUFFER),
       Skip(4),
       ResultInt(ACTUAL_TEMPERATURE_WATER), ResultInt(TARGET_TEMPERATURE_WATER),
       Skip(24),
       ResultInt(SOURCE_TEMPERATURE) >>

SystemValuesWalk ==
    << ResultInt(ACTUAL_TEMPERATURE), ResultInt(TARGET_TEMPERATURE),
       ResultInt(ACTUAL_TEMPERATURE_FEK), ResultInt(TARGET_TEMPERATURE_FEK),
       ResultInt(ACTUAL_HUMIDITY), ResultInt(DEWPOINT_TEMPERATURE),
       ResultInt(OUTDOOR_TEMPERATURE), ResultInt(ACTUAL_TEMPERATURE_HK1),
       LocalInt("hk1_target"), ResultInt(TARGET_TEMPERATURE_HK1),
       ResultInt(ACTUAL_TEMPERATURE_HK2), ResultInt(TARGET_TEMPERATURE_HK2),
       Skip(10),
       ResultInt(ACTUAL_TEMPERATURE_BUFFER), ResultInt(TARGET_TEMPERATURE_BUFFER),
       Skip(4),
       ResultInt(ACTUAL_TEMPERATURE_WATER), ResultInt(TARGET_TEMPERATURE_WATER),
       Skip(24),
       ResultInt(SOURCE_TEMPERATURE) >>

SystemValuesDecode(registers) ==
    LET w == RunWalk(SystemValuesWalk, fromRegisters(registers), EmptyMap, EmptyMap)
    IN  [ok |-> w.ok, result |-> w.result, d |-> w.d]

(***************************************************************************)
(* read_modbus_energy: twelve unsigned words around a skipped gap, then    *)
(* the totals combined from their low and high words.                      *)
(***************************************************************************)
EnergyWalk ==
    << LocalUint("produced_heating_today"),
       LocalUint("produced_heating_total_low"),
       LocalUint("produced_heating_total_high"),
       LocalUint("produced_water_today"),
       LocalUint("produced_water_total_low"),
       LocalUint("produced_water_total_high"),
       Skip(8),
       LocalUint("consumed_heating_today"),
       LocalUint("consumed_heating_total_low"),
       LocalUint("consumed_heating_total_high"),
       LocalUint("consumed_water_today"),
       LocalUint("consumed_water_total_low"),
       LocalUint("consumed_water_total_high") >>

EnergyKeys ==
    {PRODUCED_HEATING_TODAY, PRODUCED_HEATING_TOTAL,
     PRODUCED_WATER_HEATING_TODAY, PRODUCED_WATER_HEATING_TOTAL,
     CONSUMED_HEATING_TODAY, CONSUMED_HEATING_TOTAL,
     CONSUMED_WATER_HEATING_TODAY, CONSUMED_WATER_HEATING_TOTAL}

\* high * 1000 + low
Combine(high, low) == high * 1000 + low

EnergyDecode(registers) ==
    LET w == RunWalk(EnergyWalk, fromRegisters(registers), EmptyMap, EmptyMap)
        L(var) == w.locals[var].items[1].num
        Total(stem) == Plain(IntVal(Combine(L(stem \o "_total_high"), L(stem \o "_total_low"))))
    IN  IF ~w.ok THEN [ok |-> FALSE, result |-> EmptyMap, d |-> w.d]
        ELSE [ok |-> TRUE,
              result |->
                [k \in EnergyKeys |->
                   CASE k = PRODUCED_HEATING_TODAY -> w.locals["produced_heating_today"]
                     [] k = PRODUCED_HEATING_TOTAL -> Total("produced_heating")
                     [] k = PRODUCED_WATER_HEATING_TODAY -> w.locals["produced_water_today"]
                     [] k = PRODUCED_WATER_HEATING_TOTAL -> Total("produced_water")
                     [] k = CONSUMED_HEATING_TODAY -> w.locals["consumed_heating_today"]
                     [] k = CONSUMED_HEATING_TOTAL -> Total("consumed_heating")
                     [] k = CONSUMED_WATER_HEATING_TODAY -> w.locals["consumed_water_today"]
                     [] OTHER -> Total("consumed_water")],
              d |-> w.d]

(***************************************************************************)
(* parse_modbus_values_by_map.  A schema entry is <<valname, valtype>>.    *)
(* status is "return", or the exception that ends the parse: "ValueError"  *)
(* (unknown register type), "DecodeError" (the decoder has no word left)   *)
(* or "AttributeError" (append on an entry that holds a plain value).      *)
(***************************************************************************)
IsComposite(valtype) == (valtype \div ISG_TYPE_C) % 2 = 1

BaseType(valtype) == IF IsComposite(valtype) THEN valtype - ISG_TYPE_C ELSE valtype

SupportedTypes_with7 == {ISG_TYPE_2, ISG_TYPE_6, ISG_TYPE_7}

SupportedTypes == {ISG_TYPE_2, ISG_TYPE_6}

RECURSIVE ParseFrom(_, _, _)
ParseFrom(values_map, d, result) ==
    IF values_map = <<>> THEN [status |-> "return", result |-> result, d |-> d]
    ELSE LET valname == Head(values_map)[1]
             valtype == BaseType(Head(values_map)[2])
             composite_val == IsComposite(Head(values_map)[2])
         IN
         IF valtype \notin SupportedTypes
         THEN [status |-> "ValueError", result |-> result, d |-> d]
         ELSE IF ~CanDecode(d)
         THEN [status |-> "DecodeError", result |-> result, d |-> skip_bytes(d, 2)]
         ELSE LET value == IF valtype = ISG_TYPE_2
                           THEN get_isg_scaled_value(decode_16bit_int(d))
                           ELSE IntVal(decode_16bit_uint(d))
                  d2 == skip_bytes(d, 2)
              IN
              IF valname = NoName THEN ParseFrom(Tail(values_map), d2, result)
              ELSE IF ~composite_val
              THEN ParseFrom(Tail(values_map), d2, Put(result, valname, Plain(value)))
              ELSE IF valname \notin DOMAIN result
              THEN ParseFrom(Tail(values_map), d2, Put(result, valname, ListOf(<<value>>)))
              ELSE IF result[valname].list
              THEN ParseFrom(Tail(values_map), d2,
                             Put(result, valname,
                                 ListOf(Append(result[valname].items, value))))
              ELSE [status |-> "AttributeError", result |-> result, d |-> d2]

parse_modbus_values_by_map(values_map, decoder) == ParseFrom(values_map, decoder, EmptyMap)

(***************************************************************************)
(* read_modbus_system_values_LW: the schema table of the alternate family, *)
(* and the function after its register read has come back.                 *)
(***************************************************************************)
system_values_map_LW ==
    << <<ACTUAL_TEMPERATURE_HK1, ISG_TYPE_2>>,
       <<TARGET_TEMPERATURE_HK1, ISG_TYPE_2>>,
       <<ACTUAL_HUMIDITY_HK1, ISG_TYPE_2>>,
       <<ACTUAL_TEMPERATURE_HK2, ISG_TYPE_2>>,
       <<ACTUAL_TEMPERATURE_HK2, ISG_TYPE_2>>,
       <<ACTUAL_HUMIDITY_HK2, ISG_TYPE_2>>,
       <<OUTDOOR_TEMPERATURE, ISG_TYPE_2>>,
       <<ACTUAL_CIRCUIT_TEMPERATURE_HK1, ISG_TYPE_2>>,
       <<TARGET_CIRCUIT_TEMPERATURE_HK1, ISG_TYPE_2>>,
       <<ACTUAL_CIRCUIT_TEMPERATURE_HK2, ISG_TYPE_2>>,
       <<TARGET_CIRCUIT_TEMPERATURE_HK2, ISG_TYPE_2>>,
       <<SUPPLY_TEMPERATURE, ISG_TYPE_2>>,
       <<RETURN_TEMPERATURE, ISG_TYPE_2>>,
       <<PRESSURE_CIRCUIT, ISG_TYPE_2>>,
       <<NoName, ISG_TYPE_2>>,
       <<ACTUAL_TEMPERATURE_WATER, ISG_TYPE_2>>,
       <<TARGET_TEMPERATURE_WATER, ISG_TYPE_2>>,
       <<NoName, ISG_TYPE_6>>,
       <<NoName, ISG_TYPE_6>>,
       <<NoName, ISG_TYPE_6>>,
       <<NoName, ISG_TYPE_6>>,
       <<NoName, ISG_TYPE_6>>,
       <<NoName, ISG_TYPE_2>>,
       <<NoName, ISG_TYPE_2>>,
       <<NoName, ISG_TYPE_2>>,
       <<NoName, ISG_TYPE_2>>,
       <<NoName, ISG_TYPE_2>>,
       <<NoName, ISG_TYPE_2>>,
       <<NoName, ISG_TYPE_7>>,
       <<NoName, ISG_TYPE_7>>,
       <<COMPRESSOR_STARTS, ISG_TYPE_6 + ISG_TYPE_C>>,
       <<NoName, ISG_TYPE_2>>,
       <<NoName, ISG_TYPE_6>>,
       <<COMPRESSOR_STARTS, ISG_TYPE_6 + ISG_TYPE_C>> >>

LWKeys == {e[1] : e \in {system_values_map_LW[i] : i \in DOMAIN system_values_map_LW}} \ {NoName}

\* resp is what read_input_registers gave back: kind "ok" with its registers,
\* or kind "error".  With an error response the name decoder is never bound
\* and its use raises UnboundLocalError.
SystemValuesLWDecode(resp) ==
    IF resp.kind # "ok"
    THEN [status |-> "UnboundLocalError", result |-> EmptyMap, d |-> fromRegisters(<<>>)]
    ELSE LET p == parse_modbus_values_by_map(system_values_map_LW,
                                             fromRegisters(resp.registers))
         IN  IF p.status # "return" THEN p
             ELSE IF COMPRESSOR_STARTS \notin DOMAIN p.result
             THEN [p EXCEPT !.status = "KeyError"]
             ELSE IF ~p.result[COMPRESSOR_STARTS].list
                     \/ Len(p.result[COMPRESSOR_STARTS].items) < 2
             THEN [p EXCEPT !.status = "IndexError"]
             ELSE [p EXCEPT !.result =
                     Put(p.result, COMPRESSOR_STARTS,
                         Plain(IntVal(Combine(p.result[COMPRESSOR_STARTS].items[1].num,
                                              p.result[COMPRESSOR_STARTS].items[2].num))))]

(***************************************************************************)
(* The register blocks the coordinator reads, and the device behind the    *)
(* transport.  A response is what ModbusTcpClient.read_input_registers     *)
(* does for a block: it returns the registers asked for ("ok"), returns an *)
(* error response ("error", isError() is true) or raises ("raise").  The   *)
(* registers of an "ok" response are base, base+step, ... modulo 2^16.     *)
(***************************************************************************)
Blocks == {"id", "energy", "state", "main", "alt"}

Request(block) ==
    CASE block = "id" -> [slave |-> 1, address |-> 5001, count |-> 1]
      [] block = "energy" -> [slave |-> 1, address |-> 3500, count |-> 22]
      [] block = "state" -> [slave |-> 1, address |-> 2500, count |-> 1]
      [] block = "main" -> [slave |-> 1, address |-> 500, count |-> 40]
      [] OTHER -> [slave |-> 1, address |-> 0, count |-> 34]

Ok(base, step) == [kind |-> "ok", base |-> base, step |-> step]
Err == [kind |-> "error", base |-> 0, step |-> 0]
Raise == [kind |-> "raise", base |-> 0, step |-> 0]

Registers(block, resp) ==
    [i \in 1..Request(block).count |-> (resp.base + (i - 1) * resp.step) % 65536]

IdResponses == {Ok(103, 0), Ok(104, 0), Ok(0, 0), Err, Raise}
EnergyResponses == {Ok(897, 65089), Ok(0, 1), Ok(65535, 0), Err, Raise}
StateResponses == {Ok(304, 0), Ok(0, 0), Ok(65535, 0), Ok(128, 0), Err, Raise}
MainResponses == {Ok(100, 1), Ok(32751, 1), Ok(65486, 1), Err, Raise}
AltResponses == {Ok(64361, 43730), Err, Raise}

Responses(block) ==
    CASE block = "id" -> IdResponses
      [] block = "energy" -> EnergyResponses
      [] block = "state" -> StateResponses
      [] block = "main" -> MainResponses
      [] OTHER -> AltResponses

Devices ==
    {[id |-> a, energy |-> b, state |-> c, main |-> d, alt |-> e] :
        a \in IdResponses, b \in EnergyResponses, c \in StateResponses,
        d \in MainResponses, e \in AltResponses}

\* the devices of the concurrency specification: the default-family blocks
\* answer alike
ConcDevices ==
    {[id |-> a, energy |-> b, state |-> IF b.kind = "ok" THEN Ok(304, 0) ELSE b,
      main |-> IF b.kind = "ok" THEN Ok(100, 1) ELSE b, alt |-> e] :
        a \in {Ok(103, 0), Ok(104, 0), Err, Raise},
        b \in {Ok(897, 65089), Err, Raise},
        e \in {Ok(64361, 43730)}}

(***************************************************************************)
(* State.                                                                  *)
(***************************************************************************)
VARIABLES
    device,     \* what the transport does for each block
    active,     \* the threads that call into the coordinator
    lock,       \* self._lock: 0 when free, else the thread holding it
    inUse,      \* the threads inside a method of self._client
    pc,         \* each thread's position
    call,       \* each thread's current call: its locals and its outcome
    values_map, \* SpecParse: the schema handed to the parser
    registers,  \* SpecParse: the registers behind the decoder
    parsed      \* SpecParse: what parse_modbus_values_by_map did

vars == <<device, active, lock, inUse, pc, call, values_map, registers, parsed>>

Callers == 1..NumCallers

Rest == {"idle", "done", "failed"}

IdleCall ==
    [op |-> "none", id |-> 0, partial |-> EmptyMap, result |-> EmptyMap,
     reads |-> <<>>, cursor |-> 0, outcome |-> "none", cause |-> ""]

Fresh(op) == [IdleCall EXCEPT !.op = op, !.outcome = "running"]

NotParsed == [done |-> FALSE, status |-> "", result |-> EmptyMap, pointer |-> 0]

InitWith(devices, threads) ==
    /\ device \in devices
    /\ active = threads
    /\ lock = 0
    /\ inUse = {}
    /\ pc = [c \in Callers |-> "idle"]
    /\ call = [c \in Callers |-> IdleCall]
    /\ values_map = <<>>
    /\ registers = <<>>
    /\ parsed = NotParsed

Init == InitWith(Devices, {1})

InitConc == InitWith(ConcDevices, Callers)

(***************************************************************************)
(* The lock: "with self._lock:" around every use of self._client.          *)
(***************************************************************************)
CanAcquire_unguarded(c) == TRUE

\* threading.Lock.acquire: only a free lock is taken
CanAcquire(c) == lock = 0

LockAfter_held_on_raise(c, kind) == IF kind = "raise" THEN c ELSE 0

\* leaving the with block, by return or by exception, releases the lock
LockAfter(c, kind) == 0

Enter(c, from, to) ==
    /\ c \in active
    /\ pc[c] = from
    /\ CanAcquire(c)
    /\ lock' = c
    /\ inUse' = inUse \cup {c}
    /\ pc' = [pc EXCEPT ![c] = to]

Leave(c, kind) ==
    /\ lock' = LockAfter(c, kind)
    /\ inUse' = inUse \ {c}

\* a new call of a method of the coordinator by thread c
Start(c, op, to) ==
    /\ c \in active
    /\ pc[c] \in Rest
    /\ pc' = [pc EXCEPT ![c] = to]
    /\ call' = [call EXCEPT ![c] = Fresh(op)]
    /\ UNCHANGED <<device, active, lock, inUse, values_map, registers, parsed>>

\* the call of thread c ends with an exception; a poll reports UpdateFailed
Raised(c, why) ==
    /\ pc' = [pc EXCEPT ![c] = "failed"]
    /\ call' = [call EXCEPT ![c].outcome =
                    IF call[c].op = "poll" THEN "UpdateFailed" ELSE "raised",
                  ![c].cause = why,
                  ![c].result = EmptyMap]

(***************************************************************************)
(* close and connect.                                                      *)
(***************************************************************************)
CallClose(c) == Start(c, "close", "close_wait")

CallConnect(c) == Start(c, "connect", "connect_wait")

close(c) ==
    /\ Enter(c, "close_wait", "close_call")
    /\ UNCHANGED <<device, active, call, values_map, registers, parsed>>

connect(c) ==
    /\ Enter(c, "connect_wait", "connect_call")
    /\ UNCHANGED <<device, active, call, values_map, registers, parsed>>

\* self._client.close() / self._client.connect() comes back, by return or
\* by exception
ClientDone(c) ==
    /\ c \in active
    /\ pc[c] \in {"close_call", "connect_call"}
    /\ \E kind \in {"ok", "raise"} :
          /\ Leave(c, kind)
          /\ pc' = [pc EXCEPT ![c] = "idle"]
          /\ call' = [call EXCEPT ![c] = IdleCall]
    /\ UNCHANGED <<device, active, values_map, registers, parsed>>

(***************************************************************************)
(* read_input_registers: the lock is taken and the transport call begins;  *)
(* then the call comes back and the with block is left.  A response, "ok"  *)
(* or "error", goes back to the caller; an exception ends the caller's     *)
(* call.                                                                   *)
(***************************************************************************)
read_input_registers(c) ==
    /\ \E block \in Blocks :
          /\ Enter(c, block \o "_wait", block \o "_call")
          /\ call' = [call EXCEPT ![c].reads = Append(@, Request(block))]
    /\ UNCHANGED <<device, active, values_map, registers, parsed>>

read_input_registers_return(c) ==
    /\ c \in active
    /\ \E block \in Blocks :
          /\ pc[c] = block \o "_call"
          /\ Leave(c, device[block].kind)
          /\ IF device[block].kind = "raise"
             THEN Raised(c, "TransportException")
             ELSE /\ pc' = [pc EXCEPT ![c] = block \o "_back"]
                  /\ UNCHANGED call
    /\ UNCHANGED <<device, active, values_map, registers, parsed>>

(***************************************************************************)
(* The poll: _async_update_data -> read_modbus_data.                       *)
(***************************************************************************)
\* the methods the class defines
Methods ==
    {"close", "connect", "read_input_registers", "_async_update_data",
     "read_modbus_data", "read_modbus_system_state",
     "parse_modbus_values_by_map", "read_modbus_system_values_LW",
     "read_modbus_system_values", "read_modbus_energy",
     "read_modbus_controller_id"}

\* the attribute read_modbus_data looks up on self for the alternate family
AlternateCall == "read_modbus_system_values_lw"

DefaultPlan_state_first == <<"state", "energy", "main">>

\* the reads of the default family, in the order of the dict display
DefaultPlan == <<"energy", "state", "main">>

\* where the poll goes after block: the next read, or "done"
After(block) ==
    LET i == CHOOSE j \in DOMAIN DefaultPlan : DefaultPlan[j] = block
    IN  IF i = Len(DefaultPlan) THEN "done" ELSE DefaultPlan[i + 1] \o "_wait"

_async_update_data(c) == Start(c, "poll", "id_wait")

ControllerIdOf_default_1(resp) ==
    IF resp.kind = "ok" THEN decode_16bit_uint(fromRegisters(Registers("id", resp))) ELSE 1

\* read_modbus_controller_id after its read: 0 unless the read succeeded
ControllerIdOf(resp) ==
    IF resp.kind = "ok" THEN decode_16bit_uint(fromRegisters(Registers("id", resp))) ELSE 0

\* the identity read has come back; read_modbus_data picks the family
read_modbus_controller_id(c) ==
    /\ c \in active
    /\ pc[c] = "id_back"
    /\ LET id == ControllerIdOf(device["id"]) IN
            IF 103 = id
            THEN IF AlternateCall \in Methods
                 THEN /\ pc' = [pc EXCEPT ![c] = "alt_wait"]
                      /\ call' = [call EXCEPT ![c].id = id]
                 ELSE /\ pc' = [pc EXCEPT ![c] = "failed"]
                      /\ call' = [call EXCEPT ![c].id = id,
                                              ![c].outcome = "UpdateFailed",
                                              ![c].cause = "AttributeError"]
            ELSE /\ pc' = [pc EXCEPT ![c] = DefaultPlan[1] \o "_wait"]
                 /\ call' = [call EXCEPT ![c].id = id]
    /\ UNCHANGED <<device, active, lock, inUse, values_map, registers, parsed>>

BlockKeys(block) ==
    CASE block = "energy" -> EnergyKeys
      [] block = "state" -> SystemStateKeys
      [] block = "main" ->
           {SystemValuesWalk[i].name :
               i \in {j \in DOMAIN SystemValuesWalk : SystemValuesWalk[j].to = "result"}}
      [] OTHER -> LWKeys

BlockDecode(block, regs) ==
    CASE block = "energy" -> EnergyDecode(regs)
      [] block = "state" -> SystemStateDecode(regs)
      [] OTHER -> SystemValuesDecode(regs)

Contribution_none_on_error(block, resp) ==
    IF resp.kind = "ok" THEN BlockDecode(block, Registers(block, resp)).result
    ELSE [k \in BlockKeys(block) |-> Plain(None)]

\* what a default-family block decoder returns: result stays {} when
\* inverter_data.isError()
Contribution(block, resp) ==
    IF resp.kind = "ok" THEN BlockDecode(block, Registers(block, resp)).result
    ELSE EmptyMap

\* a default-family block read has come back and its decoder runs; after
\* the last one read_modbus_data returns the merged mapping
BlockDone(c, block) ==
    /\ c \in active
    /\ pc[c] = block \o "_back"
    /\ LET resp == device[block]
           dec == BlockDecode(block, Registers(block, resp))
           merged == Merge(call[c].partial, Contribution(block, resp))
           cur == IF resp.kind = "ok" THEN dec.d.pointer ELSE call[c].cursor
       IN  IF resp.kind = "ok" /\ ~dec.ok THEN Raised(c, "DecodeError")
           ELSE IF After(block) = "done"
           THEN /\ pc' = [pc EXCEPT ![c] = "done"]
                /\ call' = [call EXCEPT
                              ![c].partial = merged,
                              ![c].cursor = cur,
                              ![c].result = Put(merged, CONTROLLER_ID,
                                                Plain(IntVal(call[c].id))),
                              ![c].outcome = "returned"]
           ELSE /\ pc' = [pc EXCEPT ![c] = After(block)]
                /\ call' = [call EXCEPT ![c].partial = merged, ![c].cursor = cur]
    /\ UNCHANGED <<device, active, lock, inUse, values_map, registers, parsed>>

read_modbus_energy(c) == BlockDone(c, "energy")

read_modbus_system_state(c) == BlockDone(c, "state")

read_modbus_system_values(c) == BlockDone(c, "main")

(***************************************************************************)
(* read_modbus_system_values_LW, called on the coordinator directly (the   *)
(* poll would reach it through AlternateCall).                             *)
(***************************************************************************)
CallLW(c) == Start(c, "LW", "alt_wait")

read_modbus_system_values_LW(c) ==
    /\ c \in active
    /\ pc[c] = "alt_back"
    /\ LET resp == device["alt"]
           dec == SystemValuesLWDecode([kind |-> resp.kind,
                                        registers |-> Registers("alt", resp)])
       IN  IF dec.status # "return" THEN Raised(c, dec.status)
           ELSE /\ pc' = [pc EXCEPT ![c] = "done"]
                /\ call' = [call EXCEPT
                              ![c].partial = dec.result,
                              ![c].cursor = dec.d.pointer,
                              ![c].result =
                                 IF call[c].op = "poll"
                                 THEN Put(dec.result, CONTROLLER_ID,
                                          Plain(IntVal(call[c].id)))
                                 ELSE dec.result,
                              ![c].outcome = "returned"]
    /\ UNCHANGED <<device, active, lock, inUse, values_map, registers, parsed>>

(***************************************************************************)
(* The device changes between calls: what it answers to one block.         *)
(***************************************************************************)
DeviceChange ==
    /\ \A c \in Callers : pc[c] \in Rest
    /\ \E block \in Blocks : \E resp \in Responses(block) :
          /\ resp # device[block]
          /\ device' = [device EXCEPT ![block] = resp]
    /\ pc' = [c \in Callers |-> "idle"]
    /\ call' = [c \in Callers |-> IdleCall]
    /\ UNCHANGED <<active, lock, inUse, values_map, registers, parsed>>

CallerStep(c) ==
    \/ _async_update_data(c)
    \/ CallClose(c)
    \/ CallConnect(c)
    \/ CallLW(c)
    \/ read_input_registers(c)
    \/ read_input_registers_return(c)
    \/ close(c)
    \/ connect(c)
    \/ ClientDone(c)
    \/ read_modbus_controller_id(c)
    \/ read_modbus_energy(c)
    \/ read_modbus_system_state(c)
    \/ read_modbus_system_values(c)
    \/ read_modbus_system_values_LW(c)

Next == (\E c \in Callers : CallerStep(c)) \/ DeviceChange

Spec == Init /\ [][Next]_vars

NextConc == \E c \in Callers : CallerStep(c)

SpecConc == InitConc /\ [][NextConc]_vars

(***************************************************************************)
(* parse_modbus_values_by_map as a function of its arguments: every schema *)
(* of up to MaxSchemaLen entries against every register sequence of up to  *)
(* MaxWords words.                                                         *)
(***************************************************************************)
SchemaNames == {NoName, "a", "b"}

SchemaTypes == {ISG_TYPE_2, ISG_TYPE_6, ISG_TYPE_7, ISG_TYPE_6 + ISG_TYPE_C}

WordValues == {5, 123, 32768}

SeqsUpTo(S, n) == UNION {[1..k -> S] : k \in 0..n}

InitParse ==
    /\ device = [id |-> Ok(104, 0), energy |-> Ok(0, 1), state |-> Ok(0, 0),
                 main |-> Ok(100, 1), alt |-> Ok(64361, 43730)]
    /\ active = {}
    /\ lock = 0
    /\ inUse = {}
    /\ pc = [c \in Callers |-> "idle"]
    /\ call = [c \in Callers |-> IdleCall]
    /\ values_map \in SeqsUpTo(SchemaNames \X SchemaTypes, MaxSchemaLen)
    /\ registers \in SeqsUpTo(WordValues, MaxWords)
    /\ parsed = NotParsed

Parse ==
    /\ ~parsed.done
    /\ LET p == parse_modbus_values_by_map(values_map, fromRegisters(registers))
       IN  parsed' = [done |-> TRUE, status |-> p.status,
                      result |-> IF p.status = "return" THEN p.result ELSE EmptyMap,
                      pointer |-> p.d.pointer]
    /\ UNCHANGED <<device, active, lock, inUse, pc, call, values_map, registers>>

SpecParse == InitParse /\ [][Parse]_vars

(***************************************************************************)
(* Scheduling: a transport call that has begun comes back, and a thread    *)
(* that keeps finding the lock free at times gets it.                      *)
(***************************************************************************)
Comeback(c) == ClientDone(c) \/ read_input_registers_return(c)

TakeLock(c) == read_input_registers(c) \/ close(c) \/ connect(c)

FairSpec ==
    /\ SpecConc
    /\ \A c \in Callers : WF_vars(Comeback(c)) /\ SF_vars(TakeLock(c))

(***************************************************************************)
(* Properties.                                                             *)
(***************************************************************************)
WaitPcs == {"id_wait", "energy_wait", "state_wait", "main_wait", "alt_wait",
            "close_wait", "connect_wait"}

IdRead == [slave |-> 1, address |-> 5001, count |-> 1]
EnergyRead == [slave |-> 1, address |-> 3500, count |-> 22]
StateRead == [slave |-> 1, address |-> 2500, count |-> 1]
MainRead == [slave |-> 1, address |-> 500, count |-> 40]
AltRead == [slave |-> 1, address |-> 0, count |-> 34]

EnergyKeySet ==
    {"produced_heating_today", "produced_heating_total",
     "produced_water_heating_today", "produced_water_heating_total",
     "consumed_heating_today", "consumed_heating_total",
     "consumed_water_heating_today", "consumed_water_heating_total"}

StateKeySet ==
    {"is_heating", "is_heating_water", "is_summer_mode", "is_cooling", "consumed_power"}

MainKeySet ==
    {"actual_temperature", "target_temperature", "actual_temperature_fek",
     "target_temperature_fek", "actual_humidity", "dewpoint_temperature",
     "outdoor_temperature", "actual_temperature_hk1", "target_temperature_hk1",
     "actual_temperature_hk2", "target_temperature_hk2",
     "actual_temperature_buffer", "target_temperature_buffer",
     "actual_temperature_water", "target_temperature_water", "source_temperature"}

\* keys only the alternate family's schema table names
AltOnlyKeySet ==
    {"actual_humidity_hk1", "actual_humidity_hk2", "supply_temperature",
     "return_temperature", "pressure_circuit", "compressor_starts"}

KeySetOf(block) ==
    CASE block = "energy" -> EnergyKeySet
      [] block = "state" -> StateKeySet
      [] OTHER -> MainKeySet

DefaultBlocks == {"energy", "state", "main"}

\* a 16-bit word read as a two's-complement number
S16(u) == IF u >= 32768 THEN u - 65536 ELSE u

\* the poll of thread c has ended, by return or by UpdateFailed
PollEnded(c) == call[c].op = "poll" /\ pc[c] \in {"done", "failed"}

\* the identity read of the poll of thread c has come back
PastIdentity(c) ==
    call[c].op = "poll" /\ pc[c] \notin {"idle", "id_wait", "id_call", "id_back"}

\* the identity the device reports, when its identity read succeeds
DeviceId == device["id"].base

IdentifiedOther == device["id"].kind = "ok" /\ DeviceId # 103

Identified103 == device["id"].kind = "ok" /\ DeviceId = 103

C2_AlternateFamilyResult ==
    \A c \in Callers :
        (PollEnded(c) /\ Identified103 /\ device["alt"].kind = "ok") =>
            /\ pc[c] = "done"
            /\ call[c].outcome = "returned"
            /\ DOMAIN call[c].result = LWKeys \cup {"controller_id"}
            /\ call[c].result["controller_id"] = Plain(IntVal(103))
            /\ DOMAIN call[c].result \cap (EnergyKeySet \cup StateKeySet) = {}

(* C3: with an identity other than 103 and every block read succeeding,    *)
(* the poll reads identity, energy (3500, 22), system-state (2500, 1) and  *)
(* main values (500, 40) in that order and nothing else, and returns the   *)
(* union of the three blocks' keys plus controller_id, which is the        *)
(* identified value; no poll has reads or keys of both families.           *)
C3_DefaultFamilyDispatch ==
    \A c \in Callers :
        /\ (PollEnded(c) /\ IdentifiedOther
              /\ \A b \in DefaultBlocks : device[b].kind = "ok") =>
              /\ pc[c] = "done"
              /\ call[c].outcome = "returned"
              /\ call[c].reads = <<IdRead, EnergyRead, StateRead, MainRead>>
              /\ DOMAIN call[c].result =
                    EnergyKeySet \cup StateKeySet \cup MainKeySet \cup {"controller_id"}
              /\ call[c].result["controller_id"] = Plain(IntVal(DeviceId))
        /\ call[c].op = "poll" =>
              LET asked == {call[c].reads[i] : i \in DOMAIN call[c].reads} IN
              /\ ~(AltRead \in asked /\ asked \cap {EnergyRead, StateRead, MainRead} # {})
              /\ ~(DOMAIN call[c].result \cap AltOnlyKeySet # {}
                   /\ DOMAIN call[c].result \cap (EnergyKeySet \cup StateKeySet) # {})
              /\ IdentifiedOther => AltRead \notin asked

\* a poll of a controller other than 103 has returned with all blocks read
C3_Witness ==
    \E c \in Callers :
        /\ PollEnded(c)
        /\ device["id"] = Ok(104, 0)
        /\ \A b \in DefaultBlocks : device[b].kind = "ok"
        /\ call[c].outcome = "returned"
        /\ Len(call[c].reads) = 4

(* C4: in the default family, whichever of the three block reads return a  *)
(* read error, the poll succeeds and its result holds exactly the keys of  *)
(* the blocks whose read succeeded, plus controller_id.                    *)
C4_PartialBlockFailure ==
    \A c \in Callers :
        (PollEnded(c) /\ IdentifiedOther
            /\ \A b \in DefaultBlocks : device[b].kind \in {"ok", "error"}) =>
            /\ pc[c] = "done"
            /\ call[c].outcome = "returned"
            /\ DOMAIN call[c].result =
                  {"controller_id"} \cup
                  UNION {KeySetOf(b) : b \in {x \in DefaultBlocks : device[x].kind = "ok"}}
            /\ call[c].result["controller_id"] = Plain(IntVal(DeviceId))

\* the energy read failed, the other two succeeded, and the poll returned
C4_Witness ==
    \E c \in Callers :
        /\ PollEnded(c)
        /\ IdentifiedOther
        /\ device["energy"].kind = "error"
        /\ device["state"].kind = "ok"
        /\ device["main"].kind = "ok"
        /\ call[c].outcome = "returned"
        /\ "source_temperature" \in DOMAIN call[c].result
        /\ "produced_heating_total" \notin DOMAIN call[c].result

(* C5: in the alternate family a read error on the alternate block is      *)
(* swallowed: the poll succeeds with a result that holds controller_id =   *)
(* 103 and nothing else.                                                   *)
C5_AlternateReadErrorSwallowed ==
    \A c \in Callers :
        (PollEnded(c) /\ Identified103 /\ device["alt"].kind = "error") =>
            /\ pc[c] = "done"
            /\ call[c].outcome = "returned"
            /\ DOMAIN call[c].result = {"controller_id"}
            /\ call[c].result["controller_id"] = Plain(IntVal(103))

(* C6: at most one thread is inside a method of the transport client at    *)
(* any time, and a thread inside one holds the lock.                       *)
C6_ClientUseSerialized ==
    /\ Cardinality(inUse) <= 1
    /\ \A c \in inUse : lock = c

\* one thread is inside the client while another waits for the lock
C6_Witness ==
    \E c1 \in Callers : \E c2 \in Callers \ {c1} :
        /\ c1 \in inUse
        /\ pc[c1] = "main_call"
        /\ pc[c2] \in WaitPcs

(***************************************************************************)
(* The parser's schema, seen from outside.                                 *)
(***************************************************************************)
SchemaLen == Len(values_map)

Named(i) == values_map[i][1] # NoName

CompositeAt(i) == values_map[i][2] \div 128 % 2 = 1

BaseAt(i) == IF CompositeAt(i) THEN values_map[i][2] - 128 ELSE values_map[i][2]

\* entry i has a type code the parser decodes
Decodable(i) == BaseAt(i) \in {2, 6}

\* entry i appends to a name whose latest earlier entry stored a plain value
AppendsToPlain(i) ==
    /\ Named(i)
    /\ CompositeAt(i)
    /\ \E j \in 1..(i - 1) :
          /\ values_map[j][1] = values_map[i][1]
          /\ ~CompositeAt(j)
          /\ \A k \in (j + 1)..(i - 1) : values_map[k][1] # values_map[i][1]

\* every entry is decodable and none appends to a plain value
Regular == \A i \in 1..SchemaLen : Decodable(i) /\ ~AppendsToPlain(i)

\* what entry i decodes from the word at its own position
ValueAt(i) ==
    IF BaseAt(i) = 2
    THEN (IF S16(registers[i]) = -32768 THEN None ELSE FloatVal(S16(registers[i]), 10))
    ELSE IntVal(registers[i])

\* the positions of the entries named name, from the last plain one on
Positions(name) ==
    {i \in 1..SchemaLen :
        /\ values_map[i][1] = name
        /\ \A j \in (i + 1)..SchemaLen : values_map[j][1] = name => CompositeAt(j)}

NthPosition(name, n) ==
    CHOOSE i \in Positions(name) : Cardinality({j \in Positions(name) : j < i}) = n - 1

\* the entry the mapping holds under name when every entry took the word at
\* its own position
Expected(name) ==
    LET P == Positions(name)
        first == NthPosition(name, 1)
    IN  IF ~CompositeAt(first) THEN Plain(ValueAt(first))
        ELSE ListOf([n \in 1..Cardinality(P) |-> ValueAt(NthPosition(name, n))])

(* C7, as the spec states it: a schema of K entries parsed against exactly *)
(* K words ends without error and with the decoder exhausted, whatever the *)
(* entries are; against fewer than K words it fails.                       *)
C7_OneWordPerEntry ==
    parsed.done =>
        /\ Len(registers) = SchemaLen =>
              /\ parsed.status = "return"
              /\ parsed.pointer = 2 * Len(registers)
        /\ Len(registers) < SchemaLen => parsed.status # "return"

(* C7, amended: for a schema whose type codes are all 2 or 6 (composite or *)
(* not) and in which no composite entry follows a plain entry of its name, *)
(* the parser takes one word per entry in schema order, absent, plain and  *)
(* composite names alike: with at least K words it returns after 2K bytes  *)
(* with every entry's value taken from the word at the entry's position,   *)
(* with fewer it fails with a decode error and returns no mapping.  An     *)
(* entry of another type code, reached with no earlier failure, ends the   *)
(* parse with the unknown-register-type error at that entry.               *)
C7_OneWordPerDecodableEntry ==
    parsed.done =>
        /\ (Regular /\ Len(registers) >= SchemaLen) =>
              /\ parsed.status = "return"
              /\ parsed.pointer = 2 * SchemaLen
              /\ DOMAIN parsed.result = {values_map[i][1] : i \in {j \in 1..SchemaLen : Named(j)}}
              /\ \A name \in DOMAIN parsed.result : parsed.result[name] = Expected(name)
        /\ (Regular /\ Len(registers) < SchemaLen) =>
              /\ parsed.status = "DecodeError"
              /\ parsed.result = EmptyMap
        /\ \A u \in 1..SchemaLen :
              (/\ ~Decodable(u)
               /\ \A i \in 1..(u - 1) : Decodable(i) /\ ~AppendsToPlain(i)
               /\ Len(registers) >= u - 1) =>
                  /\ parsed.status = "ValueError"
                  /\ parsed.pointer = 2 * (u - 1)
                  /\ parsed.result = EmptyMap

\* a schema with an absent, a composite and a plain name was parsed against
\* exactly as many words as it has entries
C7_Witness ==
    /\ parsed.done
    /\ Regular
    /\ SchemaLen = 2
    /\ Len(registers) = 2
    /\ ~Named(1)
    /\ Named(2)
    /\ parsed.status = "return"
    /\ parsed.pointer = 4

(* C8: a two-part counter of a returned result is the single number        *)
(* high * 1000 + low: the energy totals from the words decoded as low and  *)
(* high, compressor_starts from the two parts the parser accumulated, the  *)
(* first as high (words 30 and 33 of the alternate block).                 *)
C8_TwoPartCounters ==
    \A c \in Callers :
        /\ (PollEnded(c) /\ call[c].outcome = "returned" /\ device["energy"].kind = "ok") =>
              LET w == Registers("energy", device["energy"]) IN
              /\ call[c].result["produced_heating_total"] = Plain(IntVal(w[3] * 1000 + w[2]))
              /\ call[c].result["produced_water_heating_total"] = Plain(IntVal(w[6] * 1000 + w[5]))
              /\ call[c].result["consumed_heating_total"] = Plain(IntVal(w[13] * 1000 + w[12]))
              /\ call[c].result["consumed_water_heating_total"] = Plain(IntVal(w[16] * 1000 + w[15]))
        /\ (call[c].op = "LW" /\ pc[c] \in {"done", "failed"} /\ device["alt"].kind = "ok") =>
              LET w == Registers("alt", device["alt"]) IN
              /\ call[c].outcome = "returned"
              /\ call[c].result["compressor_starts"] = Plain(IntVal(w[31] * 1000 + w[34]))

(* C8, the energy half: the four totals of a returned poll result.         *)
C8_EnergyTotalsCombined ==
    \A c \in Callers :
        (PollEnded(c) /\ call[c].outcome = "returned" /\ device["energy"].kind = "ok") =>
            LET w == Registers("energy", device["energy"]) IN
            /\ call[c].result["produced_heating_total"] = Plain(IntVal(w[3] * 1000 + w[2]))
            /\ call[c].result["produced_water_heating_total"] = Plain(IntVal(w[6] * 1000 + w[5]))
            /\ call[c].result["consumed_heating_total"] = Plain(IntVal(w[13] * 1000 + w[12]))
            /\ call[c].result["consumed_water_heating_total"] = Plain(IntVal(w[16] * 1000 + w[15]))

\* high 3 and low 450 came back as 3450
C8_EnergyWitness ==
    \E c \in Callers :
        /\ PollEnded(c)
        /\ call[c].outcome = "returned"
        /\ device["energy"] = Ok(897, 65089)
        /\ call[c].result["produced_heating_total"] = Plain(IntVal(3450))

(* C9: the walk over a 40-word main block stops after 36 words and takes   *)
(* every field from its fixed word: the word before the HK1 target is      *)
(* decoded and dropped, HK1 target is word 9, buffer-actual word 17,       *)
(* water-actual word 21, source temperature word 35.                       *)
MainOffsets ==
    [actual_temperature |-> 0, target_temperature |-> 1,
     actual_temperature_fek |-> 2, target_temperature_fek |-> 3,
     actual_humidity |-> 4, dewpoint_temperature |-> 5,
     outdoor_temperature |-> 6, actual_temperature_hk1 |-> 7,
     target_temperature_hk1 |-> 9, actual_temperature_hk2 |-> 10,
     target_temperature_hk2 |-> 11, actual_temperature_buffer |-> 17,
     target_temperature_buffer |-> 18, actual_temperature_water |-> 21,
     target_temperature_water |-> 22, source_temperature |-> 35]

C9_MainWalkOffsets ==
    \A c \in Callers :
        (PollEnded(c) /\ pc[c] = "done" /\ device["main"].kind = "ok") =>
            LET w == Registers("main", device["main"]) IN
            /\ call[c].cursor = 2 * 36
            /\ call[c].cursor <= 2 * Len(w)
            /\ "hk1_target" \notin DOMAIN call[c].result
            /\ \A k \in DOMAIN MainOffsets :
                  call[c].result[k] =
                      Plain(IF S16(w[MainOffsets[k] + 1]) = -32768 THEN None
                            ELSE FloatVal(S16(w[MainOffsets[k] + 1]), 10))

\* a poll returned the decode of a main block whose words all differ, with
\* the not-available word at buffer-actual
C9_Witness ==
    \E c \in Callers :
        /\ PollEnded(c)
        /\ pc[c] = "done"
        /\ device["main"] = Ok(32751, 1)
        /\ call[c].result["actual_temperature_buffer"] = Plain(None)
        /\ call[c].result["source_temperature"] = Plain(FloatVal(-32750, 10))

(* C10: the lock is free whenever no transport call is in progress,        *)
(* however the calls before ended, and a thread waiting for the lock gets  *)
(* to make its transport call.                                             *)
C10_LockReleasedAndGranted ==
    /\ [](inUse = {} => lock = 0)
    /\ \A c \in Callers : (pc[c] \in WaitPcs) ~> (c \in inUse)

\* a poll failed on a raising transport call, and another thread is inside
\* the client with the lock
C10_Witness ==
    \E c1 \in Callers : \E c2 \in Callers \ {c1} :
        /\ pc[c1] = "failed"
        /\ call[c1].op = "poll"
        /\ call[c1].cause = "TransportException"
        /\ lock = c2
        /\ c2 \in inUse

====
